---------------------------- MODULE Spec2Model ----------------------------
(***************************************************************************)
(* A model of the USFM parser crate (src/parser/src): the tokenizer        *)
(* (terminal.rs), the marker-definition table (extension.rs) and the       *)
(* document rules (document.rs).                                           *)
(*                                                                         *)
(* A string is a sequence of characters; a character is a one-letter       *)
(* string, or a token naming one code point ("BOM", "U2030", ...).         *)
(* A parser maps its input to a result, as a nom parser does:              *)
(*   [k |-> "Ok",      rest |-> the remaining input, out |-> the output]   *)
(*   [k |-> "Error",   rest |-> the input at the error, out |-> the kind]  *)
(*   [k |-> "Failure", rest |-> the input at the error, out |-> the kind]  *)
(* "Error" is nom's recoverable Err::Error and "Failure" its               *)
(* non-recoverable Err::Failure.                                           *)
(***************************************************************************)
EXTENDS Integers, Sequences, FiniteSets, TLC

-----------------------------------------------------------------------------
(* Characters *)

Lower == <<"a","b","c","d","e","f","g","h","i","j","k","l","m",
           "n","o","p","q","r","s","t","u","v","w","x","y","z">>
Upper == <<"A","B","C","D","E","F","G","H","I","J","K","L","M",
           "N","O","P","Q","R","S","T","U","V","W","X","Y","Z">>
Digit == <<"0","1","2","3","4","5","6","7","8","9">>

Range(s) == {s[i] : i \in 1..Len(s)}

IndexOf(s, c) == CHOOSE i \in 1..Len(s) : s[i] = c

\* Punctuation and control characters of the model's alphabet, with their
\* code points.
Punct ==
    ("\t" :> 9) @@ ("\n" :> 10) @@ ("\r" :> 13) @@ (" " :> 32) @@ ("!" :> 33)
    @@ ("+" :> 43) @@ ("," :> 44) @@ ("-" :> 45) @@ ("." :> 46) @@ ("/" :> 47)
    @@ ("=" :> 61) @@ ("?" :> 63) @@ ("\\" :> 92) @@ ("_" :> 95)
    @@ ("|" :> 124) @@ ("~" :> 126)
    @@ ("U00E9" :> 233) @@ ("U0141" :> 321) @@ ("U2030" :> 8240)
    @@ ("BOM" :> 65279)

Alphabet == Range(Lower) \cup Range(Upper) \cup Range(Digit) \cup DOMAIN Punct

\* The code point of a character.
Ord(c) ==
    IF c \in Range(Lower) THEN 96 + IndexOf(Lower, c)
    ELSE IF c \in Range(Upper) THEN 64 + IndexOf(Upper, c)
    ELSE IF c \in Range(Digit) THEN 47 + IndexOf(Digit, c)
    ELSE Punct[c]

\* `c as u8`: the code point truncated to eight bits.
AsU8(c) == Ord(c) % 256

\* nom::character::is_alphanumeric(u8)
is_alphanumeric(b) ==
    \/ b \in 48..57
    \/ b \in 65..90
    \/ b \in 97..122

\* char::is_ascii_uppercase and AsChar::is_dec_digit
is_ascii_uppercase(c) == Ord(c) \in 65..90
is_dec_digit(c) == Ord(c) \in 48..57

\* char::to_lowercase, on the model's alphabet
ToLower(c) == IF c \in Range(Upper) THEN Lower[IndexOf(Upper, c)] ELSE c
LowerStr(s) == [i \in 1..Len(s) |-> ToLower(s[i])]

HSpace == {" ", "\t"}
MSpace == {" ", "\t", "\r", "\n"}

-----------------------------------------------------------------------------
(* Strings and parse results *)

Take(s, n) == SubSeq(s, 1, n)
Drop(s, n) == SubSeq(s, n + 1, Len(s))
StartsWith(s, w) == Len(s) >= Len(w) /\ SubSeq(s, 1, Len(w)) = w

\* The length of the longest prefix of s made of characters of S.
SpanLen(s, S) ==
    LET bad == {i \in 1..Len(s) : s[i] \notin S}
    IN  IF bad = {} THEN Len(s)
        ELSE (CHOOSE i \in bad : \A j \in bad : i <= j) - 1

Ok(rest, out) == [k |-> "Ok", rest |-> rest, out |-> out]
Error(at, kind) == [k |-> "Error", rest |-> at, out |-> kind]
Failure(at, kind) == [k |-> "Failure", rest |-> at, out |-> kind]

IsOk(r) == r.k = "Ok"

\* Option<T>: None is <<>>, Some(v) is <<v>>.
None == <<>>
Some(v) == <<v>>

\* Sequencing, as nom's and, preceded, terminated and delimited do it: the
\* next parser runs on what the first left; an error of the first is the
\* result.
Then(r, next(_)) == IF r.k = "Ok" THEN next(r) ELSE r

\* nom's or: the second parser runs, on the same input, after a recoverable
\* error of the first.
OrElse(r, other) == IF r.k = "Error" THEN other ELSE r

\* nom::combinator::cut: a recoverable error becomes a failure.
cut(r) == IF r.k = "Error" THEN Failure(r.rest, r.out) ELSE r

\* nom::combinator::opt: a recoverable error becomes Ok(None) at the input.
opt(input, r) ==
    IF r.k = "Ok" THEN Ok(r.rest, Some(r.out))
    ELSE IF r.k = "Error" THEN Ok(input, None)
    ELSE r

\* nom::combinator::eof
eof(input) == IF input = <<>> THEN Ok(input, <<>>) ELSE Error(input, "Eof")

\* nom::character::complete::char
char(input, c) ==
    IF input # <<>> /\ input[1] = c THEN Ok(Drop(input, 1), c)
    ELSE Error(input, "Char")

\* nom::bytes::complete::tag and tag_no_case
tag(input, w) ==
    IF StartsWith(input, w) THEN Ok(Drop(input, Len(w)), w)
    ELSE Error(input, "Tag")

tag_no_case(input, w) ==
    IF Len(input) >= Len(w) /\ LowerStr(Take(input, Len(w))) = LowerStr(w)
    THEN Ok(Drop(input, Len(w)), Take(input, Len(w)))
    ELSE Error(input, "Tag")

-----------------------------------------------------------------------------
(* terminal.rs *)

\* terminal::bom
bom(input) ==
    IF input # <<>> /\ input[1] = "BOM" THEN Ok(Drop(input, 1), TRUE)
    ELSE Ok(input, FALSE)

\* nom's character::complete::line_ending: "\n" or "\r\n"
LineEndingLen(input) ==
    IF StartsWith(input, <<"\n">>) THEN 1
    ELSE IF StartsWith(input, <<"\r", "\n">>) THEN 2
    ELSE 0

\* terminal::line_ending
line_ending(input) ==
    IF LineEndingLen(input) > 0
    THEN Ok(Drop(input, LineEndingLen(input)), <<"\n">>)
    ELSE Error(input, "CrLf")

RECURSIVE LineEndingsLen(_)
LineEndingsLen(input) ==
    IF LineEndingLen(input) = 0 THEN 0
    ELSE LineEndingLen(input)
         + LineEndingsLen(Drop(input, LineEndingLen(input)))

\* terminal::line_ending1
line_ending1(input) ==
    IF LineEndingsLen(input) > 0
    THEN Ok(Drop(input, LineEndingsLen(input)), <<"\n">>)
    ELSE Error(input, "Many1Count")

\* terminal::reduce_space
reduce_space(spaces) ==
    IF spaces = <<>> THEN <<>>
    ELSE IF "\n" \in Range(spaces) THEN <<"\n">>
    ELSE <<" ">>

\* terminal::multispace0 and multispace1
\* A parser that takes the first n characters of the input
TakeN(input, n, kind) ==
    IF n = 0 THEN Error(input, kind) ELSE Ok(Drop(input, n), Take(input, n))

multispace0(input) ==
    Ok(Drop(input, SpanLen(input, MSpace)),
       reduce_space(Take(input, SpanLen(input, MSpace))))

multispace1(input) ==
    Then(TakeN(input, SpanLen(input, MSpace), "MultiSpace"),
         LAMBDA ws : Ok(ws.rest, reduce_space(ws.out)))

\* terminal::space0 and space1
space0(input) ==
    Ok(Drop(input, SpanLen(input, HSpace)),
       reduce_space(Take(input, SpanLen(input, HSpace))))

space1(input) ==
    Then(TakeN(input, SpanLen(input, HSpace), "Space"),
         LAMBDA ws : Ok(ws.rest, <<" ">>))

\* The characters terminal::name takes: is_alphanumeric(c as u8), '-' or '_'.
NameChars == {c \in Alphabet : is_alphanumeric(AsU8(c)) \/ c = "-" \/ c = "_"}

\* terminal::name
name(input) == TakeN(input, SpanLen(input, NameChars), "TakeWhile1")

\* The three alternatives of a special in terminal::text; the number of
\* characters the first matching one takes, 0 when none matches.
SpecialAt(input, ws) ==
    IF ws > 0 /\ Len(input) > ws /\ input[ws + 1] \notin {"\\", "/"}
    THEN ws + 1
    ELSE IF Len(input) >= 2 /\ input[1] = "/" /\ input[2] \notin {"\\", "/"}
    THEN 2
    ELSE IF Len(input) >= 2 /\ input[1] = "\\"
            /\ input[2] \in {"/", "~", "\\", "|"}
    THEN 2
    ELSE 0

SpecialLen(input) == SpecialAt(input, SpanLen(input, MSpace))

\* One run of terminal::text: is_not("\\/\r\n"), or a special.
RunOr(input, n) == IF n > 0 THEN n ELSE SpecialLen(input)

RunLen(input) ==
    RunOr(input, SpanLen(input, Alphabet \ {"\\", "/", "\r", "\n"}))

RECURSIVE RunsFrom(_, _)
RunsFrom(input, n) ==
    IF n = 0 THEN 0 ELSE n + RunsFrom(Drop(input, n), RunLen(Drop(input, n)))

RunsLen(input) == RunsFrom(input, RunLen(input))

\* terminal::text
text(input) == Ok(Drop(input, RunsLen(input)), Take(input, RunsLen(input)))

\* terminal::marker::end
marker_end(input) ==
    OrElse(multispace1(input),
           IF input = <<>> \/ input[1] \in {"\\", "|"} THEN Ok(input, <<>>)
           ELSE Error(input, "Eof"))

\* terminal::marker::tag(id)
marker_tag(input, id) ==
    Then(char(input, "\\"), LAMBDA bs :
    Then(tag(bs.rest, id), LAMBDA tg :
    Then(marker_end(tg.rest), LAMBDA en : Ok(en.rest, id))))

\* terminal::marker
marker(input) ==
    Then(char(input, "\\"), LAMBDA bs :
    Then(name(bs.rest), LAMBDA nm :
    Then(marker_end(nm.rest), LAMBDA en : Ok(en.rest, nm.out))))

-----------------------------------------------------------------------------
(* extension.rs: the marker-definition record *)

\* enum Category, each variant by its Debug name
Cell == <<"C","e","l","l">>
Char == <<"C","h","a","r">>
Crossreference == <<"C","r","o","s","s","r","e","f","e","r","e","n","c","e">>
CrossreferenceChar ==
    <<"C","r","o","s","s","r","e","f","e","r","e","n","c","e","C","h","a","r">>
Footnote == <<"F","o","o","t","n","o","t","e">>
FootnoteChar == <<"F","o","o","t","n","o","t","e","C","h","a","r">>
Header == <<"H","e","a","d","e","r">>
Internal == <<"I","n","t","e","r","n","a","l">>
IntroChar == <<"I","n","t","r","o","C","h","a","r">>
Introduction == <<"I","n","t","r","o","d","u","c","t","i","o","n">>
List == <<"L","i","s","t">>
ListChar == <<"L","i","s","t","C","h","a","r">>
Milestone == <<"M","i","l","e","s","t","o","n","e">>
OtherPara == <<"O","t","h","e","r","P","a","r","a">>
SectionPara == <<"S","e","c","t","i","o","n","P","a","r","a">>
Title == <<"T","i","t","l","e">>
VersePara == <<"V","e","r","s","e","P","a","r","a">>
Unknown == <<"U","n","k","n","o","w","n">>

\* impl Display for Category: the Debug name in lowercase
DisplayCategory(c) == LowerStr(c)

\* The alternatives of fn category, in the order alt tries them; the keyword
\* of each is its variant's name in lowercase.
CategoryAlt ==
    <<Cell, VersePara, Char, Introduction, SectionPara, Milestone, Internal,
      ListChar, List, Header, CrossreferenceChar, FootnoteChar, OtherPara,
      Footnote, Title, Crossreference, IntroChar>>

\* fn category
CategoryFirst(input, hits) ==
    IF hits = {} THEN Error(input, "Tag")
    ELSE Then(tag_no_case(input,
                LowerStr(CategoryAlt[CHOOSE i \in hits : \A j \in hits : i <= j])),
              LAMBDA kw :
                Ok(kw.rest,
                   CategoryAlt[CHOOSE i \in hits : \A j \in hits : i <= j]))

category(input) ==
    CategoryFirst(input,
        {i \in 1..Len(CategoryAlt) :
            IsOk(tag_no_case(input, LowerStr(CategoryAlt[i])))})

\* The field identifiers of a record
id_marker == <<"m","a","r","k","e","r">>
id_attributes == <<"a","t","t","r","i","b","u","t","e","s">>
id_category == <<"c","a","t","e","g","o","r","y">>
id_closes == <<"c","l","o","s","e","s">>
id_closedby == <<"c","l","o","s","e","d","b","y">>
id_defattrib == <<"d","e","f","a","t","t","r","i","b">>
id_description == <<"d","e","s","c","r","i","p","t","i","o","n">>

\* fn field: \id, horizontal space, the value, then a line ending or the end
field(input, id, value(_)) ==
    Then(marker_tag(input, id), LAMBDA tg :
    Then(space0(tg.rest), LAMBDA sp :
    Then(value(sp.rest), LAMBDA v :
    Then(OrElse(line_ending(v.rest), eof(v.rest)), LAMBDA le :
         Ok(le.rest, v.out)))))

\* nom's character::complete::not_line_ending
NotLineEndingAt(input, n) ==
    IF n < Len(input) /\ input[n + 1] = "\r"
       /\ ~StartsWith(Drop(input, n), <<"\r", "\n">>)
    THEN Error(input, "Tag")
    ELSE Ok(Drop(input, n), Take(input, n))

not_line_ending(input) ==
    NotLineEndingAt(input, SpanLen(input, Alphabet \ {"\r", "\n"}))

\* The attribute closure of fn record: a name and whether '?' follows it
attribute(input) ==
    Then(name(input), LAMBDA nm :
    Then(opt(nm.rest, char(nm.rest, "?")), LAMBDA q :
         Ok(q.rest, <<nm.out, q.out # None>>)))

\* The loop of separated_list1(space1, attribute) after its first element:
\* it ends, with the list so far, where a separator or an element is missing
RECURSIVE AttributesMore(_, _)
AttributesMore(input, res) ==
    OrElse(Then(space1(input), LAMBDA sp :
           Then(attribute(sp.rest), LAMBDA at :
                AttributesMore(at.rest, Append(res, at.out)))),
           Ok(input, res))

\* The attributes parser of fn record: separated_list1(space1, attribute)
attributes(input) ==
    Then(attribute(input), LAMBDA at : AttributesMore(at.rest, <<at.out>>))

\* terminal::marker::name and terminal::attrib::name: the identifier grammar
\* of terminal::name
marker_name(input) == name(input)
attrib_name(input) == name(input)

\* The six parsers handed to permutation in fn record, in tuple order
PermutationParser(i, input) ==
    CASE i = 1 -> opt(input, field(input, id_attributes, attributes))
      [] i = 2 -> OrElse(field(input, id_category, category),
                         Ok(input, Unknown))
      [] i = 3 -> opt(input, field(input, id_closes, marker_name))
      [] i = 4 -> opt(input, field(input, id_closedby, marker_name))
      [] i = 5 -> opt(input, field(input, id_defattrib, attrib_name))
      [] i = 6 -> opt(input, field(input, id_description, not_line_ending))

\* nom's branch::permutation: try, in tuple order, each parser that has no
\* result yet; the first that succeeds gets its result and the pass starts
\* again; when none succeeds the permutation ends, in error if any parser is
\* left without a result.
RECURSIVE permutation(_, _, _)
PermutationStep(input, res, i, r) ==
    IF r.k = "Ok"
    THEN permutation(r.rest, [res EXCEPT ![i] = Some(r.out)], 1)
    ELSE IF r.k = "Error" THEN permutation(input, res, i + 1)
    ELSE r

permutation(input, res, i) ==
    IF i > Len(res)
    THEN IF \E j \in 1..Len(res) : res[j] = None
         THEN Error(input, "Permutation")
         ELSE Ok(input, [j \in 1..Len(res) |-> res[j][1]])
    ELSE IF res[i] # None THEN permutation(input, res, i + 1)
    ELSE PermutationStep(input, res, i, PermutationParser(i, input))

\* Attributes::from_iter: a later pair of the list replaces an earlier one
\* of the same name
AttributesFromList(l) ==
    [n \in {l[i][1] : i \in 1..Len(l)} |->
        l[CHOOSE i \in 1..Len(l) :
            /\ l[i][1] = n
            /\ \A j \in 1..Len(l) : l[j][1] = n => j <= i][2]]

\* struct Marker, as fn record builds it
MakeMarker(nm, f) ==
    [name |-> nm,
     attributes |-> IF f[1] = None THEN <<>> ELSE AttributesFromList(f[1][1]),
     category |-> f[2],
     closes |-> f[3],
     closedby |-> f[4],
     default |-> f[5],
     description |-> f[6]]

\* A record grammar whose fields need no closing line_ending1.or(eof): the
\* variant of fn record under which adjacent records would load
record_unterminated(input) ==
    Then(field(input, id_marker, name), LAMBDA nm :
    cut(Then(permutation(nm.rest, <<None, None, None, None, None, None>>, 1),
             LAMBDA pm :
        Then(OrElse(OrElse(line_ending1(pm.rest), eof(pm.rest)),
                    Ok(pm.rest, <<>>)),
             LAMBDA le : Ok(le.rest, MakeMarker(nm.out, pm.out))))))

\* fn record
record(input) ==
    Then(field(input, id_marker, name), LAMBDA nm :
    cut(Then(permutation(nm.rest, <<None, None, None, None, None, None>>, 1),
             LAMBDA pm :
        Then(OrElse(line_ending1(pm.rest), eof(pm.rest)), LAMBDA le :
             Ok(le.rest, MakeMarker(nm.out, pm.out))))))

\* impl Display for Marker
DisplayMarker(m) ==
    <<"\\">> \o id_marker \o <<" ">> \o m.name
    \o (IF m.category # Unknown
        THEN <<"\\">> \o id_category \o <<" ">> \o DisplayCategory(m.category)
        ELSE <<>>)
    \o (IF DOMAIN m.attributes # {}
        THEN <<"\\">> \o id_category \o <<" ">> \o DisplayCategory(m.category)
        ELSE <<>>)
    \o (IF m.closes # None
        THEN <<"\\">> \o id_closes \o <<" ">> \o m.closes[1] ELSE <<>>)
    \o (IF m.closedby # None
        THEN <<"\\">> \o id_closedby \o <<" ">> \o m.closedby[1] ELSE <<>>)
    \o (IF m.default # None
        THEN <<"\\">> \o id_defattrib \o <<" ">> \o m.default[1] ELSE <<>>)
    \o (IF m.description # None
        THEN <<"\\">> \o id_description \o <<" ">> \o m.description[1]
        ELSE <<>>)

-----------------------------------------------------------------------------
(* extension.rs: the table of marker definitions *)

\* A merge that replaces the attribute mapping as it replaces a scalar
\* field: the variant of Marker::update_from that the accumulation of
\* attributes rules out
update_from_replacing(self, overrides) ==
    [self EXCEPT
        !.closes = IF overrides.closes # None THEN overrides.closes ELSE @,
        !.closedby = IF overrides.closedby # None THEN overrides.closedby
                     ELSE @,
        !.default = IF overrides.default # None THEN overrides.default ELSE @,
        !.description = IF overrides.description # None
                        THEN overrides.description ELSE @,
        !.attributes = IF DOMAIN overrides.attributes # {}
                       THEN overrides.attributes ELSE @]

\* Marker::update_from
update_from(self, overrides) ==
    [self EXCEPT
        !.closes = IF overrides.closes # None THEN overrides.closes ELSE @,
        !.closedby = IF overrides.closedby # None THEN overrides.closedby
                     ELSE @,
        !.default = IF overrides.default # None THEN overrides.default ELSE @,
        !.description = IF overrides.description # None
                        THEN overrides.description ELSE @,
        !.attributes =
            [a \in DOMAIN @ \cup DOMAIN overrides.attributes |->
                IF a \in DOMAIN overrides.attributes
                THEN overrides.attributes[a] ELSE @[a]]]

\* str::trim, on the model's alphabet
trim(s) ==
    LET keep == {i \in 1..Len(s) : s[i] \notin MSpace}
    IN  IF keep = {} THEN <<>>
        ELSE SubSeq(s, CHOOSE i \in keep : \A j \in keep : i <= j,
                       CHOOSE i \in keep : \A j \in keep : j <= i)

\* nom's combinator::iterator over fn record, run to its end: the records
\* it yields, the state it stops in (Done after a recoverable error, Failure
\* after a failure) and the input left at that point.
RECURSIVE iterator(_)
IteratorStep(input, r) ==
    IF r.k = "Ok"
    THEN [iterator(r.rest) EXCEPT !.items = <<r.out>> \o @]
    ELSE [items |-> <<>>,
          state |-> IF r.k = "Error" THEN "Done" ELSE "Failure",
          input |-> input]

iterator(input) == IteratorStep(input, record(input))

\* Extensions::default()
EmptyTable == <<>>

\* An io::Result<Extensions>; ParserIterator::finish is an error only in
\* state Failure. `left` is the input finish() returns, which the callers drop.
IoResult(it, table(_)) ==
    IF it.state = "Failure"
    THEN [ok |-> FALSE, table |-> EmptyTable, left |-> it.input]
    ELSE [ok |-> TRUE, table |-> table(it.items), left |-> it.input]

\* HashMap::from_iter over (name, marker): a later record replaces an
\* earlier one of the same name
Collect(items) ==
    [n \in {items[i].name : i \in 1..Len(items)} |->
        items[CHOOSE i \in 1..Len(items) :
            /\ items[i].name = n
            /\ \A j \in 1..Len(items) : items[j].name = n => j <= i]]

\* Extensions::from_reader
from_reader(source) == IoResult(iterator(trim(source)), Collect)

\* entry(name).and_modify(update_from).or_insert(m)
Upsert(table, m) ==
    IF m.name \in DOMAIN table
    THEN [table EXCEPT ![m.name] = update_from(@, m)]
    ELSE [n \in DOMAIN table \cup {m.name} |->
            IF n = m.name THEN m ELSE table[n]]

\* The for loop of Extensions::update_from_str
RECURSIVE UpsertAll(_, _)
UpsertAll(table, items) ==
    IF items = <<>> THEN table
    ELSE UpsertAll(Upsert(table, Head(items)), Tail(items))

\* Extensions::update_from_str
update_from_str(self, source) ==
    IoResult(iterator(trim(source)), LAMBDA items : UpsertAll(self, items))

-----------------------------------------------------------------------------
(* document.rs: the session state and the identification rule *)

\* An f32 the model can compare: (-1)^neg * m * 10^(-s), with m and s the
\* smallest such numbers. Exact for decimal numerals of up to seven
\* significant digits, which f32 tells apart. cls is "finite", "inf" or "nan".
RECURSIVE Normal(_, _, _)
Normal(neg, m, s) ==
    IF m = 0 THEN [cls |-> "finite", neg |-> FALSE, m |-> 0, s |-> 0]
    ELSE IF s < 0 THEN Normal(neg, m * 10, s + 1)
    ELSE IF s > 0 /\ m % 10 = 0 THEN Normal(neg, m \div 10, s - 1)
    ELSE [cls |-> "finite", neg |-> neg, m |-> m, s |-> s]

Special(cls) == [cls |-> cls, neg |-> FALSE, m |-> 0, s |-> 0]

RECURSIVE DigitsVal(_)
DigitsVal(ds) ==
    IF ds = <<>> THEN 0
    ELSE DigitsVal(Take(ds, Len(ds) - 1)) * 10
         + (IndexOf(Digit, ds[Len(ds)]) - 1)

DigitsLen(input) == SpanLen(input, Range(Digit))

\* nom::bytes::complete::take(n)
take(input, n) ==
    IF Len(input) < n THEN Error(input, "Eof")
    ELSE Ok(Drop(input, n), Take(input, n))

\* The parts of nom's recognize_float: an optional sign; digits with an
\* optional point and digits, or a point and digits; an optional exponent,
\* committed after its letter.
float_sign(input) ==
    IF input # <<>> /\ input[1] \in {"+", "-"}
    THEN Ok(Drop(input, 1), input[1] = "-")
    ELSE Ok(input, FALSE)

FloatFraction(int, rest, n) ==
    IF rest # <<>> /\ rest[1] = "."
    THEN Ok(Drop(rest, n + 1), [int |-> int, frac |-> Take(Drop(rest, 1), n)])
    ELSE Ok(rest, [int |-> int, frac |-> <<>>])

FloatPoint(input, n) ==
    IF n > 0
    THEN Ok(Drop(input, n + 1), [int |-> <<>>, frac |-> Take(Drop(input, 1), n)])
    ELSE Error(input, "Float")

float_mantissa(input) ==
    IF DigitsLen(input) > 0
    THEN FloatFraction(Take(input, DigitsLen(input)),
                       Drop(input, DigitsLen(input)),
                       DigitsLen(Drop(input, DigitsLen(input) + 1)))
    ELSE IF input # <<>> /\ input[1] = "."
    THEN FloatPoint(input, DigitsLen(Drop(input, 1)))
    ELSE Error(input, "Float")

FloatExponentDigits(input, neg, n) ==
    IF n = 0 THEN Failure(input, "Digit")
    ELSE Ok(Drop(input, n),
            IF neg THEN 0 - DigitsVal(Take(input, n))
            ELSE DigitsVal(Take(input, n)))

float_exponent(input) ==
    IF input # <<>> /\ input[1] \in {"e", "E"}
    THEN Then(float_sign(Drop(input, 1)), LAMBDA sg :
              FloatExponentDigits(sg.rest, sg.out, DigitsLen(sg.rest)))
    ELSE Ok(input, 0)

recognize_float(input) ==
    Then(float_sign(input), LAMBDA sg :
    Then(float_mantissa(sg.rest), LAMBDA mn :
    Then(float_exponent(mn.rest), LAMBDA ex :
         Ok(ex.rest,
            Normal(sg.out, DigitsVal(mn.out.int \o mn.out.frac),
                   Len(mn.out.frac) - ex.out)))))

FloatException(input, word, cls) ==
    Then(tag_no_case(input, word), LAMBDA t : Ok(t.rest, Special(cls)))

\* nom::number::complete::float: recognize_float, or one of nan, inf and
\* infinity, and the text parsed as an f32
float(input) ==
    OrElse(recognize_float(input),
    OrElse(FloatException(input, <<"n","a","n">>, "nan"),
    OrElse(FloatException(input, <<"i","n","f">>, "inf"),
    OrElse(FloatException(input, <<"i","n","f","i","n","i","t","y">>, "inf"),
           Error(input, "Float")))))

\* State::new: version 3.0
NewVersion == Normal(FALSE, 30, 1)

id_id == <<"i","d">>
id_usfm == <<"u","s","f","m">>
attr_code == <<"c","o","d","e">>

\* Content::Text and Content::Book(Node)
Text(s) == [Text |-> s]
Book(style, attrs, content) ==
    [Book |-> [style |-> style, attributes |-> attrs, content |-> content]]

\* State::text
State_text(input) == Then(text(input), LAMBDA t : Ok(t.rest, Text(t.out)))

\* The predicate of verify in State::identification: the uppercase letters
\* and the decimal digits of the code, each counted in a u8, are at most 3
CountOf(s, P(_)) == Cardinality({i \in 1..Len(s) : P(s[i])})

CodeVerify(s) ==
    ((CountOf(s, is_ascii_uppercase) % 256)
     + (CountOf(s, is_dec_digit) % 256)) % 256 <= 3

\* code of State::identification
Verify(r, input) == IF CodeVerify(r.out) THEN r ELSE Error(input, "Verify")

code(input) ==
    Then(Then(take(input, 3), LAMBDA t : Verify(t, input)), LAMBDA c :
    Then(space1(c.rest), LAMBDA sp : Ok(sp.rest, c.out)))

\* The \usfm line of State::identification
usfm(input) ==
    Then(marker_tag(input, id_usfm), LAMBDA mt :
    Then(cut(float(mt.rest)), LAMBDA fl :
    Then(line_ending1(fl.rest), LAMBDA le : Ok(le.rest, fl.out))))

\* An identification that consumes the \usfm line and leaves the version as
\* it was: the variant that the version rule of identification rules out
identification_unversioned(self_version, input) ==
    Then(marker_tag(bom(input).rest, id_id), LAMBDA mt :
    Then(code(mt.rest), LAMBDA cd :
    Then(opt(cd.rest, State_text(cd.rest)), LAMBDA tx :
    Then(line_ending1(tx.rest), LAMBDA le :
    Then(opt(le.rest, usfm(le.rest)), LAMBDA us :
         Ok(us.rest,
            [node |-> Book(id_id, attr_code :> cd.out, tx.out),
             version |-> self_version]))))))

\* State::identification, for a State of the given version: the result,
\* whose output is the node and the State's version after the call
\* identification setting the version to that of a new State when the input
\* has no `\usfm` line
identification_resetting(self_version, input) ==
    Then(marker_tag(bom(input).rest, id_id), LAMBDA mt :
    Then(code(mt.rest), LAMBDA cd :
    Then(opt(cd.rest, State_text(cd.rest)), LAMBDA tx :
    Then(line_ending1(tx.rest), LAMBDA le :
    Then(opt(le.rest, usfm(le.rest)), LAMBDA us :
         Ok(us.rest,
            [node |-> Book(id_id, attr_code :> cd.out, tx.out),
             version |-> IF us.out # None THEN us.out[1]
                         ELSE Normal(FALSE, 30, 1)]))))))

identification(self_version, input) ==
    Then(marker_tag(bom(input).rest, id_id), LAMBDA mt :
    Then(code(mt.rest), LAMBDA cd :
    Then(opt(cd.rest, State_text(cd.rest)), LAMBDA tx :
    Then(line_ending1(tx.rest), LAMBDA le :
    Then(opt(le.rest, usfm(le.rest)), LAMBDA us :
         Ok(us.rest,
            [node |-> Book(id_id, attr_code :> cd.out, tx.out),
             version |-> IF us.out # None THEN us.out[1]
                         ELSE self_version]))))))

-----------------------------------------------------------------------------
(* document.rs: the category gate and the block rules *)

\* Content::OptBreak and Content::Para(Node) with no attributes
OptBreak == [OptBreak |-> <<>>]
Para(style, content) ==
    [Para |-> [style |-> style, attributes |-> <<>>, content |-> content]]

\* str::trim_ascii_end
TrimLen(s) ==
    IF {i \in 1..Len(s) : s[i] \notin MSpace} = {} THEN 0
    ELSE CHOOSE i \in 1..Len(s) :
            /\ s[i] \notin MSpace
            /\ \A j \in (i + 1)..Len(s) : s[j] \in MSpace

trim_ascii_end(s) == Take(s, TrimLen(s))

\* State::para_text
para_text(input) ==
    Then(text(input), LAMBDA t : Ok(t.rest, Text(trim_ascii_end(t.out))))

\* State::optbreak
optbreak(input) ==
    Then(tag(input, <<"\\">>), LAMBDA t : Ok(t.rest, OptBreak))

\* The match of State::marker on the style terminal::marker returned
MarkerGate(self, cat, mk) ==
    IF mk.out \in DOMAIN self /\ self[mk.out].category = cat
    THEN Ok(mk.rest, mk.out)
    ELSE Error(mk.rest, "Tag")

\* State::marker accepting every marker the table knows, whatever its category
State_marker_any(self, cat, input) ==
    Then(marker(input), LAMBDA mk :
         IF mk.out \in DOMAIN self THEN Ok(mk.rest, mk.out)
         ELSE Error(mk.rest, "Tag"))

\* State::marker(cat), for a State with the given table
State_marker(self, cat, input) ==
    Then(marker(input), LAMBDA mk : MarkerGate(self, cat, mk))

id_rem == <<"r","e","m">>
id_sts == <<"s","t","s">>

\* marker of State::headers
headers_marker(self, input) ==
    OrElse(State_marker(self, Header, input),
    OrElse(marker_tag(input, id_rem), marker_tag(input, id_sts)))

\* State::headers keeping the text of an entry as it stands
header_untrimmed(self, input) ==
    Then(headers_marker(self, input), LAMBDA mk :
    Then(State_text(mk.rest), LAMBDA tx :
    Then(line_ending1(tx.rest), LAMBDA le :
         Ok(le.rest, Para(mk.out, <<tx.out>>)))))

\* header of State::headers
header(self, input) ==
    Then(headers_marker(self, input), LAMBDA mk :
    Then(para_text(mk.rest), LAMBDA tx :
    Then(line_ending1(tx.rest), LAMBDA le :
         Ok(le.rest, Para(mk.out, <<tx.out>>)))))

\* nom::multi::many0 taking at most one entry
Many0Once(x, r) == IF r.k = "Ok" THEN Ok(r.rest, <<x>>) ELSE r

\* nom::multi::many0, one round: an entry that parsed is put before those
\* that follow, a recoverable error ends the list at the input of the round,
\* and an entry that consumed nothing is an error
Many0Cons(x, r) == IF r.k = "Ok" THEN Ok(r.rest, <<x>> \o r.out) ELSE r

\* State::headers
RECURSIVE headers(_, _)
HeadersStep(self, input, r) ==
    IF r.k = "Error" THEN Ok(input, <<>>)
    ELSE IF r.k = "Failure" THEN r
    ELSE IF Len(r.rest) = Len(input) THEN Error(input, "Many0")
    ELSE Many0Cons(r.out, headers(self, r.rest))

headers(self, input) == HeadersStep(self, input, header(self, input))

\* marker and content of State::titles
titles_marker(self, input) ==
    OrElse(State_marker(self, Title, input), marker_tag(input, id_rem))

titles_content(input) == OrElse(State_text(input), optbreak(input))

\* title of State::titles
title(self, input) ==
    Then(titles_marker(self, input), LAMBDA mk :
    Then(titles_content(mk.rest), LAMBDA ct :
    Then(line_ending1(ct.rest), LAMBDA le :
         Ok(le.rest, Para(mk.out, <<ct.out>>)))))

\* State::titles
RECURSIVE titles(_, _)
TitlesStep(self, input, r) ==
    IF r.k = "Error" THEN Ok(input, <<>>)
    ELSE IF r.k = "Failure" THEN r
    ELSE IF Len(r.rest) = Len(input) THEN Error(input, "Many0")
    ELSE Many0Cons(r.out, titles(self, r.rest))

titles(self, input) == TitlesStep(self, input, title(self, input))

-----------------------------------------------------------------------------
(* Grammar sources: the inputs of the table's operations *)

\* A line of a grammar source: \id followed, when val is not empty, by a
\* space and val.
LineText(l) ==
    <<"\\">> \o l.id \o (IF l.val = <<>> THEN <<>> ELSE <<" ">> \o l.val)
    \o <<"\n">>

L_attributes == [id |-> id_attributes, val |-> <<"x"," ","y","?">>]
L_attributes2 == [id |-> id_attributes, val |-> <<"y"," ","z","?">>]
L_category == [id |-> id_category, val |-> <<"T","i","t","l","e">>]
L_category2 == [id |-> id_category, val |-> <<"c","h","a","r">>]
L_closes == [id |-> id_closes, val |-> <<"p">>]
L_closedby == [id |-> id_closedby, val |-> <<"q">>]
L_defattrib == [id |-> id_defattrib, val |-> <<"x">>]
L_description == [id |-> id_description, val |-> <<"d"," ","e">>]
\* Lines that are no field of the record grammar, or carry no value
L_badcategory == [id |-> id_category, val |-> <<"b","o","g","u","s">>]
L_unknown == [id |-> <<"z","z">>, val |-> <<"v">>]
L_nodescription == [id |-> id_description, val |-> <<>>]

\* The identifiers of the optional fields, in the order of fn record's tuple
FieldIds ==
    <<id_attributes, id_category, id_closes, id_closedby, id_defattrib,
      id_description>>

\* One well-formed line, with a value, of each optional field
ValueLines ==
    {L_attributes, L_category, L_closes, L_closedby, L_defattrib,
     L_description}

FieldLines == ValueLines \cup {L_badcategory, L_unknown, L_nodescription}

\* The most field lines in a record of a source
MaxFields == 2

SeqsUpTo(S, n) == UNION {[1..k -> S] : k \in 0..n}

RECURSIVE Concat(_)
Concat(ss) == IF ss = <<>> THEN <<>> ELSE Head(ss) \o Concat(Tail(ss))

\* The text of a record: its \marker line and its field lines
RecordText(nm, body) ==
    LineText([id |-> id_marker, val |-> nm])
    \o Concat([i \in 1..Len(body) |-> LineText(body[i])])

\* What a source holds before its record "a": nothing, a record "p" and a
\* blank line, or a line that is no field and a blank line
LeadText(lead) ==
    CASE lead = "none" -> <<>>
      [] lead = "record" ->
            RecordText(<<"p">>, <<[id |-> id_category, val |-> DisplayCategory(List)]>>)
            \o <<"\n">>
      [] lead = "junk" -> <<"j","u","n","k","\n","\n">>

\* The record that may follow record "a"
NextRecordText == RecordText(<<"b">>, <<L_closes>>)

\* What a source holds after its record "a": nothing, a blank line and a
\* line that is no field, the next record at once, or a blank line and the
\* next record
TrailText(trail) ==
    CASE trail = "none" -> <<>>
      [] trail = "junk" -> <<"\n","j","u","n","k","\n">>
      [] trail = "adjacent" -> NextRecordText
      [] trail = "blank" -> <<"\n">> \o NextRecordText

Sources ==
    [lead : {"none", "record", "junk"},
     body : SeqsUpTo(FieldLines, MaxFields),
     trail : {"none", "junk", "adjacent", "blank"}]

\* The source from its record "a" on, and the whole source
FromRecord(s) == RecordText(<<"a">>, s.body) \o TrailText(s.trail)
Render(s) == LeadText(s.lead) \o FromRecord(s)

-----------------------------------------------------------------------------
(* Identification inputs *)

\* A \usfm line: its text after the marker and the number the text denotes
NoUsfm == [given |-> FALSE, txt |-> <<>>, number |-> FALSE, val |-> NewVersion]
Usfm31 ==
    [given |-> TRUE, txt |-> <<"3",".","1">>, number |-> TRUE,
     val |-> Normal(FALSE, 31, 1)]
Usfm250 ==
    [given |-> TRUE, txt |-> <<"2",".","5","0">>, number |-> TRUE,
     val |-> Normal(FALSE, 25, 1)]
UsfmNoNumber ==
    [given |-> TRUE, txt |-> <<"x">>, number |-> FALSE, val |-> NewVersion]
\* A number with a space before the line ending: not a `\usfm` line that
\* identification takes
Usfm31Space ==
    [given |-> TRUE, txt |-> <<"3",".","1"," ">>, number |-> FALSE,
     val |-> NewVersion]

\* The most characters in the descriptive text of an \id line
MaxText == 3

Codes ==
    {<<"M","A","T">>, <<"1","J","N">>, <<"m","a","t">>, <<"M"," ","T">>,
     <<"M","A">>}

\* The inputs of identification, by their parts: an optional byte-order
\* mark, \id, whitespace, a code, whitespace, a text, a line ending and an
\* optional \usfm line
IdSources ==
    [bom : BOOLEAN,
     ws1 : {<<" ">>, <<"\n">>},
     code : Codes,
     ws2 : {<<>>, <<" ">>, <<"\t"," ">>},
     text : SeqsUpTo({"x", " ", "/", "\\"}, MaxText),
     usfm : {NoUsfm, Usfm31, Usfm250, UsfmNoNumber}]

IdText(s) ==
    (IF s.bom THEN <<"BOM">> ELSE <<>>)
    \o <<"\\">> \o id_id \o s.ws1 \o s.code \o s.ws2 \o s.text \o <<"\n">>
    \o (IF s.usfm.given
        THEN <<"\\">> \o id_usfm \o <<" ">> \o s.usfm.txt \o <<"\n">>
        ELSE <<>>)

\* The inputs of a later call of identification on the same State
LaterSources ==
    [bom : {FALSE},
     ws1 : {<<" ">>},
     code : {<<"M","A","T">>},
     ws2 : {<<>>, <<" ">>},
     text : {<<"x">>},
     usfm : {NoUsfm, Usfm31, Usfm250, UsfmNoNumber, Usfm31Space}]

-----------------------------------------------------------------------------
(* Loading a table from one source *)

VARIABLES
    src,      \* the grammar source, by its parts
    pc,       \* the last operation applied to it
    rec,      \* the result of fn record
    res,      \* the result of from_reader or update_from_str
    shown     \* a marker of the table, its Display text and that text parsed

loadVars == <<src, pc, rec, res, shown>>

VARIABLES
    markers,  \* the Extensions table that sources are merged into
    prev,     \* the table before the last merge
    msrc,     \* the last source merged, as its records
    mok,      \* whether no merge has returned an error
    merges,   \* the number of merges so far
    decl      \* per marker, the attributes the merged sources declared

mergeVars == <<markers, prev, msrc, mok, merges, decl>>

VARIABLES
    version,  \* State::version
    idsrc,    \* the input of the last call of identification, by its parts
    idres,    \* the result of that call
    pver,     \* State::version before that call
    calls,    \* the number of calls on this State
    uver      \* the number of the last `\usfm` line a call succeeded with

idVars == <<version, idsrc, idres, pver, calls, uver>>

VARIABLES
    btab,     \* State::markers of the State the block rules run on
    bsrc,     \* the input of the block rule, by its entries
    bop,      \* the rule applied to it
    bcat,     \* the category State::marker was asked for
    bres      \* the result of the rule

blockVars == <<btab, bsrc, bop, bcat, bres>>

VARIABLES
    tin,      \* the input of a terminal parser
    tfn,      \* the terminal parser applied to it
    tout      \* the result of that parser

termVars == <<tin, tfn, tout>>

vars == <<loadVars, mergeVars, idVars, blockVars, termVars>>

NoParse == [k |-> "None", rest |-> <<>>, out |-> <<>>]
NoResult == [ok |-> FALSE, table |-> EmptyTable, left |-> <<>>]
NoShown == [m |-> <<>>, text |-> <<>>, back |-> NoParse]

LoadStart ==
    /\ pc = "start"
    /\ rec = NoParse
    /\ res = NoResult
    /\ shown = NoShown

\* The variables of the other operations, at rest
LoadIdle ==
    /\ src = [lead |-> "none", body |-> <<>>, trail |-> "none"]
    /\ LoadStart

MergeIdle ==
    /\ markers = EmptyTable
    /\ prev = EmptyTable
    /\ msrc = <<>>
    /\ mok = TRUE
    /\ merges = 0
    /\ decl = <<>>

NoIdSource == [bom |-> FALSE, ws1 |-> <<>>, code |-> <<>>, ws2 |-> <<>>,
               text |-> <<>>, usfm |-> NoUsfm]

IdIdle ==
    /\ version = NewVersion
    /\ pver = NewVersion
    /\ idsrc = NoIdSource
    /\ idres = NoParse
    /\ calls = 0
    /\ uver = NewVersion

BlockIdle ==
    /\ btab = EmptyTable
    /\ bsrc = <<>>
    /\ bop = "none"
    /\ bcat = <<>>
    /\ bres = NoParse

TermIdle ==
    /\ tin = <<>>
    /\ tfn = "none"
    /\ tout = NoParse

\* fn record on the source from its record "a" on
Record ==
    /\ pc = "start"
    /\ rec' = record(FromRecord(src))
    /\ pc' = "record"
    /\ UNCHANGED <<src, res, shown, mergeVars, idVars, blockVars, termVars>>

\* Extensions::from_reader on the source
FromReader ==
    /\ pc = "start"
    /\ res' = from_reader(Render(src))
    /\ pc' = "from_reader"
    /\ UNCHANGED <<src, rec, shown, mergeVars, idVars, blockVars, termVars>>

\* Extensions::default().update_from_str(source), as From<&str> calls it
UpdateFromStr ==
    /\ pc = "start"
    /\ res' = update_from_str(EmptyTable, Render(src))
    /\ pc' = "update_from_str"
    /\ UNCHANGED <<src, rec, shown, mergeVars, idVars, blockVars, termVars>>

\* Display of a marker of the loaded table, and fn record on that text
Display ==
    /\ pc \in {"from_reader", "update_from_str"}
    /\ res.ok
    /\ \E n \in DOMAIN res.table :
         shown' = [m |-> res.table[n],
                   text |-> DisplayMarker(res.table[n]),
                   back |-> record(DisplayMarker(res.table[n]))]
    /\ pc' = "display"
    /\ UNCHANGED <<src, rec, res, mergeVars, idVars, blockVars, termVars>>

InitLoad ==
    /\ src \in Sources
    /\ LoadStart
    /\ MergeIdle
    /\ IdIdle
    /\ BlockIdle
    /\ TermIdle

NextLoad ==
    \/ Record
    \/ FromReader
    \/ UpdateFromStr
    \/ Display

SpecLoad == InitLoad /\ [][NextLoad]_vars

-----------------------------------------------------------------------------
(* What a source says, read off its parts *)

Loaded == pc \in {"from_reader", "update_from_str"}

\* The place of a line's field in fn record's tuple, 0 for no field of it
IdIndex(l) ==
    IF \E i \in 1..Len(FieldIds) : FieldIds[i] = l.id
    THEN CHOOSE i \in 1..Len(FieldIds) : FieldIds[i] = l.id
    ELSE 0

DistinctFields(body) ==
    \A i, j \in 1..Len(body) : i # j => body[i].id # body[j].id

\* Distinct optional fields, each a well-formed line with a value
WellFormed(body) == Range(body) \subseteq ValueLines /\ DistinctFields(body)

\* The same lines in the order of fn record's tuple
Canonical(body) == SortSeq(body, LAMBDA x, y : IdIndex(x) < IdIndex(y))

\* A record with an unknown category keyword, an unrecognised field or a
\* repeated field
Malformed(body) ==
    \/ \E i \in 1..Len(body) : body[i] \in {L_badcategory, L_unknown}
    \/ ~DistinctFields(body)

LastLineHasValue(body) == body = <<>> \/ body[Len(body)].val # <<>>

-----------------------------------------------------------------------------
(* Claims on loading a table *)

\* C2 (as claimed): from_reader and update_from_str return an error whenever
\* part of the trimmed source is left after the last record that parsed: a
\* call that succeeds has consumed the whole source, and a source that begins
\* with, or ends in, a line that is no field does not succeed.
C2_LeftoverIsError ==
    Loaded /\ res.ok =>
        /\ res.left = <<>>
        /\ src.lead # "junk"
        /\ src.trail # "junk"

\* C3 (as claimed): for distinct optional fields in any order after the
\* \marker line, record succeeds and returns the Marker it returns for the
\* same fields in any other order (here: in the order of the record
\* grammar), with category Unknown when there is no category line.
C3_FieldOrderFree ==
    pc = "record" /\ src.trail = "none" /\ WellFormed(src.body) =>
        /\ rec.k = "Ok"
        /\ rec.out = record(RecordText(<<"a">>, Canonical(src.body))).out
        /\ (L_category \notin Range(src.body) => rec.out.category = Unknown)

C5_RoundTrip ==
    pc = "display" =>
        /\ shown.back.k = "Ok"
        /\ shown.back.out = shown.m

\* C7 (as claimed): once the \marker line of a record has parsed, an unknown
\* category keyword, a repeated field or an unrecognised field before the
\* record ends makes record return a failure, and makes from_reader and
\* update_from_str return an error, also when records parsed before it.
C7_Committed ==
    /\ pc = "record" /\ Malformed(src.body) => rec.k = "Failure"
    /\ Loaded /\ Malformed(src.body) /\ src.lead # "junk" => ~res.ok

-----------------------------------------------------------------------------
(* Merging sources into a table *)

\* The most merges into one table
MaxMerges == 2

\* The bodies of the records merged under the name "a": fields in the order
\* of fn record's tuple, each given or not
MergeBodies ==
    {at \o ca \o de :
        at \in {<<>>, <<L_attributes>>, <<L_attributes2>>},
        ca \in {<<>>, <<L_category>>, <<L_category2>>},
        de \in {<<>>, <<L_description>>}}

\* The sources merged: one record "a"; one record "b"; a record with its
\* fields out of order; two records, of two names or of one
MergeSources ==
    {<<[nm |-> <<"a">>, body |-> b]>> : b \in MergeBodies}
    \cup {<<[nm |-> <<"b">>, body |-> b]>> :
            b \in {<<>>, <<L_attributes>>, <<L_category2, L_closes>>}}
    \cup {<<[nm |-> <<"a">>, body |-> <<L_description, L_category>>]>>}
    \cup {<<[nm |-> <<"a">>, body |-> b], [nm |-> n, body |-> c]>> :
            b \in {<<L_attributes>>, <<L_category, L_closes>>},
            c \in {<<L_attributes2>>, <<L_category2>>},
            n \in {<<"a">>, <<"b">>}}

\* The sources a base table is loaded from: none, or records "a" and "b"
BaseSources ==
    {<<>>,
     <<[nm |-> <<"a">>, body |-> <<L_attributes, L_category>>]>>,
     <<[nm |-> <<"a">>, body |-> <<L_category2, L_closes, L_description>>]>>,
     <<[nm |-> <<"a">>, body |-> <<L_attributes2>>],
       [nm |-> <<"b">>, body |-> <<L_closedby, L_defattrib>>]>>}

\* The text of a source: its records, a blank line after each
MergeText(source) ==
    Concat([i \in 1..Len(source) |->
              RecordText(source[i].nm, source[i].body) \o <<"\n">>])

\* The attributes a field line declares, name to optional flag
Declared(l) ==
    IF l = L_attributes THEN (<<"x">> :> FALSE) @@ (<<"y">> :> TRUE)
    ELSE IF l = L_attributes2 THEN (<<"y">> :> FALSE) @@ (<<"z">> :> TRUE)
    ELSE <<>>

\* The attributes a record declares
DeclaredBy(r) ==
    IF \E i \in 1..Len(r.body) : r.body[i].id = id_attributes
    THEN Declared(r.body[CHOOSE i \in 1..Len(r.body) :
                            r.body[i].id = id_attributes])
    ELSE <<>>

\* d with the declarations of r laid over those made before for its marker
Declare(d, r) ==
    [n \in DOMAIN d \cup {r.nm} |->
        IF n # r.nm THEN d[n]
        ELSE IF n \in DOMAIN d THEN DeclaredBy(r) @@ d[n]
        ELSE DeclaredBy(r)]

RECURSIVE DeclareAll(_, _)
DeclareAll(d, source) ==
    IF source = <<>> THEN d
    ELSE DeclareAll(Declare(d, Head(source)), Tail(source))

\* Extensions::update_from_str on the table; an error drops the table,
\* which update_from_str took by value
MergeStr ==
    /\ merges < MaxMerges
    /\ mok
    /\ \E source \in MergeSources :
        /\ markers' = update_from_str(markers, MergeText(source)).table
        /\ mok' = update_from_str(markers, MergeText(source)).ok
        /\ decl' = IF mok' THEN DeclareAll(decl, source) ELSE <<>>
        /\ msrc' = source
    /\ prev' = markers
    /\ merges' = merges + 1
    /\ UNCHANGED <<loadVars, idVars, blockVars, termVars>>

\* Extensions::update_from_reader, from a reader that reads without error
update_from_reader(self, source) == update_from_str(self, source)

MergeReader ==
    /\ merges < MaxMerges
    /\ mok
    /\ \E source \in MergeSources :
        /\ markers' = update_from_reader(markers, MergeText(source)).table
        /\ mok' = update_from_reader(markers, MergeText(source)).ok
        /\ decl' = IF mok' THEN DeclareAll(decl, source) ELSE <<>>
        /\ msrc' = source
    /\ prev' = markers
    /\ merges' = merges + 1
    /\ UNCHANGED <<loadVars, idVars, blockVars, termVars>>

\* A base table loaded by from_reader, before any merge
InitMerge ==
    /\ LoadIdle
    /\ IdIdle
    /\ BlockIdle
    /\ TermIdle
    /\ \E base \in BaseSources :
        /\ markers = from_reader(MergeText(base)).table
        /\ decl = DeclareAll(<<>>, base)
    /\ prev = EmptyTable
    /\ msrc = <<>>
    /\ mok = TRUE
    /\ merges = 0

NextMerge ==
    \/ MergeStr
    \/ MergeReader

SpecMerge == InitMerge /\ [][NextMerge]_vars

-----------------------------------------------------------------------------
(* Claims on merging *)

\* Whether the parsed record gives the field
Present(m, f) == IF f = "category" THEN m[f] # Unknown ELSE m[f] # None

ScalarFields == {"category", "closes", "closedby", "default", "description"}

DistinctNames(source) ==
    \A i, j \in 1..Len(source) : i # j => source[i].nm # source[j].nm

\* The record, as fn record parses it
Incoming(r) == record(RecordText(r.nm, r.body)).out

\* What C1 says of one record of the source: overwrite what is present and
\* keep what is absent, or insert as parsed
MergedAsClaimed(nm, inc) ==
    /\ nm \in DOMAIN markers
    /\ IF nm \in DOMAIN prev
       THEN \A f \in ScalarFields :
                markers[nm][f] = IF Present(inc, f) THEN inc[f]
                                 ELSE prev[nm][f]
       ELSE markers[nm] = inc

\* C1 (as claimed): after a merge that succeeded, for every record of the
\* source (of distinct marker names) whose name was in the table, each of
\* category, closes, closedby, default and description that the record
\* gives has replaced the old value and each that it does not give has kept
\* it; a record whose name was not in the table was inserted as parsed.
C1_MergeOverwrites ==
    merges > 0 /\ mok /\ DistinctNames(msrc) =>
        \A i \in 1..Len(msrc) : MergedAsClaimed(msrc[i].nm, Incoming(msrc[i]))

\* C6: after any number of successful merges into a table, the attribute
\* mapping of every marker holds every attribute name that a merged source
\* declared for it, with the optional flag of its latest declaration, and
\* no other name.
C6_AttributesAccumulate ==
    mok =>
        /\ DOMAIN decl = DOMAIN markers
        /\ \A n \in DOMAIN decl :
            /\ DOMAIN markers[n].attributes = DOMAIN decl[n]
            /\ \A a \in DOMAIN decl[n] : markers[n].attributes[a] = decl[n][a]

\* C6 witness: three merges which each declared attributes for marker "a",
\* the last of them without the attribute x, and the table holds x, y and z.
C6_Witness ==
    /\ mok
    /\ merges = MaxMerges
    /\ msrc = <<[nm |-> <<"a">>, body |-> <<L_attributes2>>]>>
    /\ <<"a">> \in DOMAIN prev
    /\ DOMAIN prev[<<"a">>].attributes = {<<"x">>, <<"y">>}
    /\ prev[<<"a">>].attributes[<<"y">>] = TRUE
    /\ DOMAIN markers[<<"a">>].attributes = {<<"x">>, <<"y">>, <<"z">>}
    /\ markers[<<"a">>].attributes[<<"y">>] = FALSE

-----------------------------------------------------------------------------
(* Identification of a book *)

\* The most calls of identification on one State
MaxCalls == 2

\* State::identification on a new State
\* The number of the `\usfm` line of a source when the call on it succeeded
\* and the source has such a line, else the number known before
UsfmOf(s, r, before) ==
    IF IsOk(r) /\ s.usfm.given /\ s.usfm.number THEN s.usfm.val ELSE before

Identification ==
    /\ calls = 0
    /\ idres' = identification(version, IdText(idsrc))
    /\ version' = IF IsOk(idres') THEN idres'.out.version ELSE version
    /\ pver' = version
    /\ calls' = 1
    /\ uver' = UsfmOf(idsrc, idres', uver)
    /\ UNCHANGED <<idsrc, loadVars, mergeVars, blockVars, termVars>>

\* State::identification again, on the State as the calls before left it
IdentificationAgain ==
    /\ calls \in 1..(MaxCalls - 1)
    /\ \E s \in LaterSources :
        /\ idsrc' = s
        /\ idres' = identification(version, IdText(s))
        /\ uver' = UsfmOf(s, idres', uver)
    /\ version' = IF IsOk(idres') THEN idres'.out.version ELSE version
    /\ pver' = version
    /\ calls' = calls + 1
    /\ UNCHANGED <<loadVars, mergeVars, blockVars, termVars>>

\* A State from State::new and an input for its first call
InitId ==
    /\ LoadIdle
    /\ MergeIdle
    /\ BlockIdle
    /\ TermIdle
    /\ version = NewVersion
    /\ pver = NewVersion
    /\ idsrc \in IdSources
    /\ idres = NoParse
    /\ calls = 0
    /\ uver = NewVersion

NextId ==
    \/ Identification
    \/ IdentificationAgain

SpecId == InitId /\ [][NextId]_vars

-----------------------------------------------------------------------------
(* Claims on identification *)

\* Three characters, each an uppercase letter or a decimal digit
CodeValid(c) ==
    /\ Len(c) = 3
    /\ \A i \in 1..Len(c) : is_ascii_uppercase(c[i]) \/ is_dec_digit(c[i])

\* The three characters that follow \id and its whitespace in the input
ParsedCode(s) == Take(s.code \o s.ws2 \o s.text \o <<"\n">>, 3)

\* An input of the form \id, whitespace, a valid code, horizontal
\* whitespace, a text without backslash that does not begin with
\* whitespace, a line ending and, if any, a \usfm line with a number
IdForm(s) ==
    /\ ~s.bom
    /\ s.ws1 # <<>>
    /\ CodeValid(s.code)
    /\ s.ws2 # <<>>
    /\ "\\" \notin Range(s.text)
    /\ (s.text = <<>> \/ s.text[1] \notin HSpace)
    /\ (s.usfm.given => s.usfm.number)

\* The text has no "//" and does not end in "/"
NoBreak(t) ==
    /\ t = <<>> \/ t[Len(t)] # "/"
    /\ \A i \in 1..(Len(t) - 1) : ~(t[i] = "/" /\ t[i + 1] = "/")

\* The whole input consumed, the node of the code and the text returned,
\* and the version that of the \usfm line, if any
IdAsClaimed ==
    /\ IsOk(idres)
    /\ idres.rest = <<>>
    /\ idres.out.node
         = Book(id_id, attr_code :> idsrc.code, <<Text(idsrc.text)>>)
    /\ version = IF idsrc.usfm.given THEN idsrc.usfm.val ELSE pver

\* C8 (as claimed): for every input of the form \id, whitespace, a book
\* code, horizontal whitespace, a text without markers or line endings, a
\* line ending and optionally a \usfm V line, identification consumes the
\* whole input, returns the Book node of style id with attributes
\* {code: CODE} and content [Text(TEXT)], and leaves the version unchanged,
\* or sets it to V when the \usfm line is there.
C8_IdentificationResult ==
    calls > 0 /\ IdForm(idsrc) => IdAsClaimed

\* C8 (amended): the same, for a text that also has no "//" and does not
\* end in "/"; for a text of the form that has "//" or ends in "/",
\* identification returns a recoverable error and the version is unchanged.
C8_IdentificationResultNoBreak ==
    calls > 0 /\ IdForm(idsrc) =>
        IF NoBreak(idsrc.text) THEN IdAsClaimed
        ELSE idres.k = "Error" /\ version = pver

\* C8 witness: a first call on a text with a "/" inside and a \usfm 3.1
\* line succeeded, and the version went from 3.0 to 3.1.
C8_Witness ==
    /\ calls = 1
    /\ IdForm(idsrc)
    /\ idsrc.text = <<"x", "/", "x">>
    /\ idsrc.usfm = Usfm31
    /\ IsOk(idres)
    /\ idres.out.node.Book.content = <<Text(<<"x", "/", "x">>)>>
    /\ pver = NewVersion
    /\ version = Usfm31.val

\* C9 (as claimed): identification succeeds only when the three characters
\* of the book code are uppercase letters or decimal digits.
C9_BookCodeValidated ==
    calls > 0 /\ IsOk(idres) => CodeValid(ParsedCode(idsrc))

\* C10 (as claimed): an input \id, whitespace, a valid book code and
\* directly a line ending is accepted, and the node returned has the
\* attribute code set to the book code and empty text content.
C10_TrailingTextOptional ==
    calls > 0 /\ ~idsrc.bom /\ idsrc.ws1 # <<>> /\ CodeValid(idsrc.code)
              /\ idsrc.ws2 = <<>> /\ idsrc.text = <<>> /\ ~idsrc.usfm.given =>
        /\ IsOk(idres)
        /\ idres.out.node.Book.attributes = attr_code :> idsrc.code
        /\ idres.out.node.Book.content \in {<<>>, <<Text(<<>>)>>}


\* C15: every input of the model starts, after an optional byte order mark,
\* with the marker `\id`; a call of identification that does not succeed on
\* it returns a failure, not a recoverable error
C15_CommittedAfterId ==
    calls > 0 /\ ~IsOk(idres) => idres.k = "Failure"

\* C18: after any sequence of calls of identification on one State, the
\* version is the number of the `\usfm` line of the last call that succeeded
\* with one, or 3.0 when there was none; a call that fails and a call that
\* succeeds on an input without a `\usfm` line leave it as it was
C18_VersionSequence ==
    /\ version = uver
    /\ calls = 0 => version = NewVersion
    /\ calls > 0 /\ (~IsOk(idres) \/ ~idsrc.usfm.given) => version = pver

\* A first call has set the version to 3.1 and a second call, whose `\usfm`
\* value is not a number, has failed: the version is still 3.1
C18_Witness ==
    /\ calls = 2
    /\ pver = Usfm31.val
    /\ idsrc.usfm = UsfmNoNumber
    /\ idres.k = "Failure"
    /\ version = Usfm31.val
    /\ version # NewVersion

-----------------------------------------------------------------------------
(* The category gate and the block rules on one State *)

MaxEntries == 2

id_h1 == <<"h","1">>
id_mt == <<"m","t">>
id_zz == <<"z","z">>

\* Grammar sources of the tables the State may hold: h1 a Header and mt a
\* Title, and the same with rem and sts registered as Titles too
BlockGrammar(withRem) ==
    RecordText(id_h1, <<[id |-> id_category, val |-> DisplayCategory(Header)]>>)
    \o <<"\n">>
    \o RecordText(id_mt, <<[id |-> id_category, val |-> DisplayCategory(Title)]>>)
    \o (IF withRem
        THEN <<"\n">>
             \o RecordText(id_rem,
                    <<[id |-> id_category, val |-> DisplayCategory(Title)]>>)
             \o <<"\n">>
             \o RecordText(id_sts,
                    <<[id |-> id_category, val |-> DisplayCategory(Title)]>>)
        ELSE <<>>)

BlockTables == {from_reader(BlockGrammar(w)).table : w \in BOOLEAN}

\* An entry of a block: `\m`, a space, its text and, unless nl is FALSE, a
\* line ending. The bare `\` has its line ending: before the backslash of a
\* next entry it would read as that backslash escaped
EntryStyles == {id_h1, id_mt, id_rem, id_sts, id_zz}
EntryTexts == {<<>>, <<"x"," ">>, <<"a","/","/","b">>, <<"x","/">>, <<"\\">>}
Entries ==
    {e \in [m : EntryStyles, text : EntryTexts, nl : BOOLEAN] :
        e.text = <<"\\">> => e.nl}

EntryText(e) ==
    <<"\\">> \o e.m \o <<" ">> \o e.text \o (IF e.nl THEN <<"\n">> ELSE <<>>)

RECURSIVE BlockText(_)
BlockText(es) ==
    IF es = <<>> THEN <<>> ELSE EntryText(Head(es)) \o BlockText(Tail(es))

BlockSources == SeqsUpTo(Entries, MaxEntries)

\* State::marker(cat) on the input
StateMarker ==
    /\ bop = "none"
    /\ \E cat \in {Header, Title} :
        /\ bcat' = cat
        /\ bres' = State_marker(btab, cat, BlockText(bsrc))
    /\ bop' = "marker"
    /\ UNCHANGED <<btab, bsrc, loadVars, mergeVars, idVars, termVars>>

\* State::headers on the input
Headers ==
    /\ bop = "none"
    /\ bres' = headers(btab, BlockText(bsrc))
    /\ bop' = "headers"
    /\ UNCHANGED <<btab, bsrc, bcat, loadVars, mergeVars, idVars, termVars>>

\* State::titles on the input
Titles ==
    /\ bop = "none"
    /\ bres' = titles(btab, BlockText(bsrc))
    /\ bop' = "titles"
    /\ UNCHANGED <<btab, bsrc, bcat, loadVars, mergeVars, idVars, termVars>>

InitBlock ==
    /\ LoadIdle
    /\ MergeIdle
    /\ IdIdle
    /\ TermIdle
    /\ btab \in BlockTables
    /\ bsrc \in BlockSources
    /\ bop = "none"
    /\ bcat = <<>>
    /\ bres = NoParse

NextBlock ==
    \/ StateMarker
    \/ Headers
    \/ Titles

SpecBlock == InitBlock /\ [][NextBlock]_vars

-----------------------------------------------------------------------------
(* Claims on the category gate and the block rules *)

\* The style of the first entry is in the table with the category asked for
Registered(cat, m) == m \in DOMAIN btab /\ btab[m].category = cat

\* C11: on an input that starts with a marker `\m`, State::marker(C) succeeds,
\* returning m, exactly when m is in the table with category C; otherwise,
\* whether m is absent or has another category, it returns the one recoverable
\* error of kind Tag at the position after the marker, never a failure
C11_CategoryGate ==
    (bop = "marker" /\ bsrc # <<>>) =>
        LET m == bsrc[1].m
            after == marker(BlockText(bsrc)).rest
        IN  IF Registered(bcat, m)
            THEN bres = Ok(after, m)
            ELSE bres = Error(after, "Tag")

\* The gate has refused a marker the table holds with another category
C11_Witness ==
    /\ bop = "marker"
    /\ bsrc # <<>>
    /\ bsrc[1].m \in DOMAIN btab
    /\ ~Registered(bcat, bsrc[1].m)
    /\ bres.k = "Error"


\* The marker of an entry is one State::headers takes: registered as a Header,
\* or rem or sts whatever the table says
HeaderStyle(m) == Registered(Header, m) \/ m \in {id_rem, id_sts}

\* The text of an entry is there and holds no backslash
HasText(e) == e.text # <<>> /\ "\\" \notin Range(e.text)

\* The Paragraph node the header rule is to make of an entry
HeaderNode(e) == Para(e.m, <<Text(trim_ascii_end(e.text))>>)

HeaderLines ==
    /\ bsrc # <<>>
    /\ \A i \in 1..Len(bsrc) :
        HeaderStyle(bsrc[i].m) /\ HasText(bsrc[i]) /\ bsrc[i].nl

\* C12, as stated: on lines `\m text` + line ending whose markers are Headers
\* of the table or rem or sts, headers consumes the whole input and returns
\* one Paragraph per line, in order, with style m, no attributes and the
\* trimmed text as its one content item
C12_HeaderBlock ==
    (bop = "headers" /\ HeaderLines) =>
        bres = Ok(<<>>, [i \in 1..Len(bsrc) |-> HeaderNode(bsrc[i])])

\* The number of leading entries whose text holds no `//` and does not end
\* in `/`
RECURSIVE PlainLines(_)
PlainLines(es) ==
    IF es = <<>> \/ ~NoBreak(Head(es).text) THEN 0
    ELSE 1 + PlainLines(Tail(es))

\* C12, with the texts terminal::text does not take to their end set apart:
\* on such lines headers returns the Paragraphs of the lines before the first
\* whose text holds `//` or ends in `/`, and leaves the input from that line
\* on; when there is no such line it consumes the whole input
C12_HeaderBlockNoBreak ==
    (bop = "headers" /\ HeaderLines) =>
        LET n == PlainLines(bsrc)
        IN  bres = Ok(BlockText(SubSeq(bsrc, n + 1, Len(bsrc))),
                      [i \in 1..n |-> HeaderNode(bsrc[i])])

\* Two header lines, one by its category and one by the name rem that the
\* table does not hold as a Header, were made into two Paragraphs
C12_Witness ==
    /\ bop = "headers"
    /\ HeaderLines
    /\ Len(bsrc) = 2
    /\ Registered(Header, bsrc[1].m)
    /\ bsrc[2].m = id_rem
    /\ \A i \in 1..2 : NoBreak(bsrc[i].text)
    /\ trim_ascii_end(bsrc[1].text) # bsrc[1].text
    /\ IsOk(bres)
    /\ Len(bres.out) = 2
    /\ bres.rest = <<>>


\* The marker of an entry is one State::titles takes
TitleStyle(m) == Registered(Title, m) \/ m = id_rem

\* The content item the title rule is to make of an entry: OptionalBreak of
\* the bare `\`, the text of a text run
TitleNode(e) ==
    Para(e.m, <<IF e.text = <<"\\">> THEN OptBreak ELSE Text(e.text)>>)

\* C13: when the first entry has a Title marker (or rem), then either the bare
\* `\` or a text run, then a line ending, titles consumes it and returns first
\* a Paragraph of the marker's style whose one content item is OptionalBreak,
\* or that text
C13_TitleOptBreak ==
    (/\ bop = "titles"
     /\ bsrc # <<>>
     /\ TitleStyle(bsrc[1].m)
     /\ bsrc[1].nl
     /\ bsrc[1].text = <<"\\">> \/ (HasText(bsrc[1]) /\ NoBreak(bsrc[1].text)))
    => /\ IsOk(bres)
       /\ bres.out # <<>>
       /\ Head(bres.out) = TitleNode(bsrc[1])
       /\ \E k \in 1..Len(bsrc) :
            bres.rest = BlockText(SubSeq(bsrc, k + 1, Len(bsrc)))


\* An entry the rule takes whole: its marker is one of the rule's, its text is
\* a run terminal::text takes to its end, and its line ending is there
Complete(e) ==
    /\ IF bop = "headers" THEN HeaderStyle(e.m) ELSE TitleStyle(e.m)
    /\ HasText(e)
    /\ NoBreak(e.text)
    /\ e.nl

RECURSIVE Leading(_)
Leading(es) ==
    IF es = <<>> \/ ~Complete(Head(es)) THEN 0 ELSE 1 + Leading(Tail(es))

EntryNode(e) == IF bop = "headers" THEN HeaderNode(e) ELSE TitleNode(e)

\* C16: headers and titles always succeed; the list holds the nodes of the
\* leading entries that are complete, and the remainder is the input from the
\* backslash of the first entry that is not (a marker the rule does not take,
\* or no text, or no line ending) on, so that the input is the consumed
\* entries followed by the remainder
C16_StopWithoutConsuming ==
    bop \in {"headers", "titles"} =>
        LET n == Leading(bsrc)
        IN  /\ bres = Ok(BlockText(SubSeq(bsrc, n + 1, Len(bsrc))),
                         [i \in 1..n |-> EntryNode(bsrc[i])])
            /\ BlockText(bsrc) = BlockText(SubSeq(bsrc, 1, n)) \o bres.rest

\* A rule took its first entry and stopped at the second, whose marker it
\* does not take
C16_Witness ==
    /\ bop \in {"headers", "titles"}
    /\ Len(bsrc) = 2
    /\ Complete(bsrc[1])
    /\ bsrc[2].m \in DOMAIN btab
    /\ HasText(bsrc[2]) /\ NoBreak(bsrc[2].text) /\ bsrc[2].nl
    /\ ~Complete(bsrc[2])
    /\ Len(bres.out) = 1
    /\ bres.rest = EntryText(bsrc[2])


-----------------------------------------------------------------------------
(* terminal::text on one input *)

MaxRun == 4

TextChars == {"a", " ", "\n", "\\", "/"}
TextInputs == SeqsUpTo(TextChars, MaxRun)

\* terminal::text on the input
TerminalText ==
    /\ tfn = "none"
    /\ tout' = text(tin)
    /\ tfn' = "text"
    /\ UNCHANGED <<tin, loadVars, mergeVars, idVars, blockVars>>

InitText ==
    /\ LoadIdle
    /\ MergeIdle
    /\ IdIdle
    /\ BlockIdle
    /\ tin \in TextInputs
    /\ tfn = "none"
    /\ tout = NoParse

NextText == TerminalText

SpecText == InitText /\ [][NextText]_vars

-----------------------------------------------------------------------------
(* Claims on terminal::text *)

LineEndings == {"\r", "\n"}

\* Two line endings of s with nothing but horizontal whitespace between them
BlankLine(s) ==
    \E i, j \in 1..Len(s) :
        /\ i < j
        /\ s[i] \in LineEndings
        /\ s[j] \in LineEndings
        /\ \A k \in (i + 1)..(j - 1) : s[k] \in HSpace

\* C14: terminal::text succeeds with a run that is the start of the input,
\* and the run never spans a blank line; it takes a line ending only when a
\* character other than `\` and `/` follows it
C14_NoBlankLineInRun ==
    tfn = "text" =>
        /\ IsOk(tout)
        /\ tin = tout.out \o tout.rest
        /\ ~BlankLine(tout.out)
        /\ \A i \in 1..Len(tout.out) :
            tout.out[i] \in LineEndings =>
                /\ i < Len(tin)
                /\ tin[i + 1] \notin {"\\", "/"}


-----------------------------------------------------------------------------
(* terminal::name on one input *)

MaxName == 3

\* Letters, digits, `-` and `_`, other ASCII characters, and three characters
\* above U+00FF: the letters U+00E9 and U+0141 and the per-mille sign U+2030
NameInputChars ==
    {"a", "Z", "7", "-", "_", " ", "!", "U00E9", "U0141", "U2030"}
NameInputs == SeqsUpTo(NameInputChars, MaxName)

\* terminal::name on the input
TerminalName ==
    /\ tfn = "none"
    /\ tout' = name(tin)
    /\ tfn' = "name"
    /\ UNCHANGED <<tin, loadVars, mergeVars, idVars, blockVars>>

InitName ==
    /\ LoadIdle
    /\ MergeIdle
    /\ IdIdle
    /\ BlockIdle
    /\ tin \in NameInputs
    /\ tfn = "none"
    /\ tout = NoParse

NextName == TerminalName

SpecName == InitName /\ [][NextName]_vars

-----------------------------------------------------------------------------
(* Claims on terminal::name *)

\* The characters of an identifier: ASCII letters and digits, `-` and `_`
AsciiIdent == Range(Lower) \cup Range(Upper) \cup Range(Digit) \cup {"-", "_"}

\* The same with the letters of the alphabet that are not ASCII
LetterIdent == AsciiIdent \cup {"U00E9", "U0141"}

\* C17: terminal::name consumes only letters, digits, `-` and `_`: the run is
\* the start of the input and holds no other character, it ends at the end
\* of the input or before a character that is not an ASCII letter, digit, `-`
\* or `_`, and name fails when the first character is none of these
C17_IdentifierAlphabet ==
    tfn = "name" =>
        IF tin = <<>> \/ tin[1] \notin LetterIdent
        THEN tout.k = "Error"
        ELSE IsOk(tout) =>
                /\ tin = tout.out \o tout.rest
                /\ tout.out # <<>>
                /\ Range(tout.out) \subseteq LetterIdent
                /\ tout.rest = <<>> \/ Head(tout.rest) \notin AsciiIdent

=============================================================================
